---- MODULE Spec2Model ----
(***************************************************************************)
(* Binary search tree (BSTree.hpp) and AVL tree (AVLTree.hpp).              *)
(*                                                                         *)
(* A tree is the value of its root pointer: nullptr, or a node record      *)
(* [key, left, right] (BSTNode) or [key, left, right, height] (AVLNode)    *)
(* whose left and right fields are again trees.  A `Node *&` parameter of  *)
(* the source is a reference to a pointer slot: it is modelled as the path *)
(* of that slot from the root, a sequence of "left"/"right" field names    *)
(* (<<>> is the slot `root` itself).  Every recursive method takes the     *)
(* whole tree and the path of the slot it was handed, and returns the      *)
(* whole tree after its writes together with its return value.             *)
(***************************************************************************)
EXTENDS Integers, Sequences, FiniteSets, TLC

\* Keys are 1..MaxKey (T is a strictly totally ordered type).
MaxKey == 7

\* keys used where every node is followed by its address
HeapMaxKey == 4

Keys == 1..MaxKey

nullptr == <<>>

\* enum eRemove
Modes == {"COPY", "FUSION"}

VARIABLES
    kind,   \* which class the object is: "BST" (BSTree<T>) or "AVL" (AVLTree<T>)
    root,   \* Tree::root
    op,     \* the last public call made on the object
    ret,    \* what that call returned (nullptr for an absent unique_ptr)
    before, \* what print(os, INORDER) would have written just before that call
    trip,   \* a caller doing insert(k) and then at once remove(k), as example.cpp
            \* does: the key, the in-order output before the insert, and
            \* whether the remove has been made
    drain,  \* a caller emptying the tree by removeMin()/removeMax() in turn:
            \* the keys it started from, the keys returned so far, whose turn
    live,   \* the caller's record of the keys it holds in the tree, kept from
            \* the return values alone: added when insert returns true, taken
            \* out when a remove call returns it, emptied by clear()
    insRots, \* the rotations the last call made if it was an insert (in the
            \* order made, each with the slot it was applied to), else none
    heap    \* the node objects behind root, each at its own address, with the
            \* new and delete calls of the last call counted; kept by the
            \* specification that follows node identities (SpecHeap), left
            \* as constructed by the others

vars == <<kind, root, op, ret, before, trip, drain, live, insRots, heap>>

-----------------------------------------------------------------------------
(* Pointer slots *)

\* The pointer stored in the slot at path ref.
RECURSIVE Deref(_, _)
Deref(t, ref) ==
    IF ref = <<>> THEN t ELSE Deref(t[Head(ref)], Tail(ref))

\* The tree after writing pointer v into the slot at path ref.
RECURSIVE Assign(_, _, _)
Assign(t, ref, v) ==
    IF ref = <<>> THEN v
    ELSE [t EXCEPT ![Head(ref)] = Assign(t[Head(ref)], Tail(ref), v)]

\* new BSTNode(key)
NewBSTNode(key) == [key |-> key, left |-> nullptr, right |-> nullptr]

\* new AVLNode(key): height = 1
NewAVLNode(key) == [key |-> key, left |-> nullptr, right |-> nullptr, height |-> 1]

-----------------------------------------------------------------------------
(* Read-only methods *)

\* Tree::isEmpty
isEmpty(t) == t = nullptr

\* BSTree::inorder, as the sequence of keys written to the stream
RECURSIVE inorder(_)
inorder(node) ==
    IF node = nullptr THEN <<>>
    ELSE inorder(node.left) \o <<node.key>> \o inorder(node.right)

\* BSTree::preorder
RECURSIVE preorder(_)
preorder(node) ==
    IF node = nullptr THEN <<>>
    ELSE <<node.key>> \o preorder(node.left) \o preorder(node.right)

\* BSTree::postorder
RECURSIVE postorder(_)
postorder(node) ==
    IF node = nullptr THEN <<>>
    ELSE postorder(node.left) \o postorder(node.right) \o <<node.key>>

\* get that descends to the left for a greater key as well
RECURSIVE get_leftOnly(_, _)
get_leftOnly(node, key) ==
    IF node = nullptr THEN nullptr
    ELSE IF key < node.key THEN get_leftOnly(node.left, key)
    ELSE IF key > node.key THEN get_leftOnly(node.left, key)
    ELSE <<node.key>>

\* BSTree::get(Node*, T&): a pointer to the stored key (<<key>>), or nullptr
RECURSIVE get(_, _)
get(node, key) ==
    IF node = nullptr THEN nullptr
    ELSE IF key < node.key THEN get(node.left, key)
    ELSE IF key > node.key THEN get(node.right, key)
    ELSE <<node.key>>

\* BSTree::getMax
RECURSIVE getMax(_)
getMax(t) ==
    IF t = nullptr THEN nullptr
    ELSE IF t.right # nullptr THEN getMax(t.right)
    ELSE <<t.key>>

\* BSTree::getMin
RECURSIVE getMin(_)
getMin(t) ==
    IF t = nullptr THEN nullptr
    ELSE IF t.left # nullptr THEN getMin(t.left)
    ELSE <<t.key>>

\* BSTree::findMax: the slot that points to the greatest node below slot ref
RECURSIVE findMax(_, _)
findMax(t, ref) ==
    IF Deref(t, ref).right # nullptr THEN findMax(t, Append(ref, "right")) ELSE ref

\* BSTree::findMin
RECURSIVE findMin(_, _)
findMin(t, ref) ==
    IF Deref(t, ref).left # nullptr THEN findMin(t, Append(ref, "left")) ELSE ref

-----------------------------------------------------------------------------
(* BSTree *)

\* insert without the test for an equal key: a key that is not smaller goes right
RECURSIVE BSTinsert_noEqual(_, _, _)
BSTinsert_noEqual(t, node, key) ==
    LET n == Deref(t, node) IN
    IF n = nullptr THEN [root |-> Assign(t, node, NewBSTNode(key)), ret |-> TRUE]
    ELSE IF key < n.key THEN BSTinsert_noEqual(t, Append(node, "left"), key)
    ELSE BSTinsert_noEqual(t, Append(node, "right"), key)

\* BSTree::insert(Node*&, T&)
RECURSIVE BSTinsert(_, _, _)
BSTinsert(t, node, key) ==
    LET n == Deref(t, node) IN
    IF n = nullptr THEN [root |-> Assign(t, node, NewBSTNode(key)), ret |-> TRUE]
    ELSE IF key < n.key THEN BSTinsert(t, Append(node, "left"), key)
    ELSE IF key > n.key THEN BSTinsert(t, Append(node, "right"), key)
    ELSE [root |-> t, ret |-> FALSE]

\* removeByCopy taking the least key of the left subtree (findMin for findMax)
RECURSIVE removeByCopy_findMin(_, _, _)
removeByCopy_findMin(t, node, key) ==
    LET n == Deref(t, node) IN
    IF n = nullptr THEN [root |-> t, ret |-> nullptr]
    ELSE IF n.key > key THEN removeByCopy_findMin(t, Append(node, "left"), key)
    ELSE IF n.key < key THEN removeByCopy_findMin(t, Append(node, "right"), key)
    ELSE LET keyptr == <<n.key>> IN
         IF n.left # nullptr
         THEN LET max  == findMin(t, Append(node, "left"))
                  t1   == Assign(t, Append(node, "key"), Deref(t, max).key)
                  temp == Deref(t1, max).left
              IN  [root |-> Assign(t1, max, temp), ret |-> keyptr]
         ELSE LET temp == n.right
              IN  [root |-> Assign(t, node, temp), ret |-> keyptr]

\* BSTree::removeByCopy.  keyptr is modelled as <<key>>, an absent pointer as
\* nullptr.  `delete` frees memory only; the tree value keeps what stays linked.
RECURSIVE removeByCopy(_, _, _)
removeByCopy(t, node, key) ==
    LET n == Deref(t, node) IN
    IF n = nullptr THEN [root |-> t, ret |-> nullptr]
    ELSE IF n.key > key THEN removeByCopy(t, Append(node, "left"), key)
    ELSE IF n.key < key THEN removeByCopy(t, Append(node, "right"), key)
    ELSE LET keyptr == <<n.key>> IN
         IF n.left # nullptr
         THEN LET max  == findMax(t, Append(node, "left"))
                  t1   == Assign(t, Append(node, "key"), Deref(t, max).key)
                  temp == Deref(t1, max).left
              IN  [root |-> Assign(t1, max, temp), ret |-> keyptr]
         ELSE LET temp == n.right
              IN  [root |-> Assign(t, node, temp), ret |-> keyptr]

\* removeByFusion without `findMax(node->left)->right = node->right`
RECURSIVE removeByFusion_dropRight(_, _, _)
removeByFusion_dropRight(t, node, key) ==
    LET n == Deref(t, node) IN
    IF n = nullptr THEN [root |-> t, ret |-> nullptr]
    ELSE IF n.key > key THEN removeByFusion_dropRight(t, Append(node, "left"), key)
    ELSE IF n.key < key THEN removeByFusion_dropRight(t, Append(node, "right"), key)
    ELSE LET keyptr == <<n.key>>
             temp   == IF n.left # nullptr THEN n.left ELSE n.right
         IN  [root |-> Assign(t, node, temp), ret |-> keyptr]

\* removeByFusion hanging node->right below the least node of the left subtree
\* (findMin for findMax)
RECURSIVE removeByFusion_findMin(_, _, _)
removeByFusion_findMin(t, node, key) ==
    LET n == Deref(t, node) IN
    IF n = nullptr THEN [root |-> t, ret |-> nullptr]
    ELSE IF n.key > key THEN removeByFusion_findMin(t, Append(node, "left"), key)
    ELSE IF n.key < key THEN removeByFusion_findMin(t, Append(node, "right"), key)
    ELSE LET keyptr == <<n.key>> IN
         IF n.left # nullptr
         THEN LET max  == findMin(t, Append(node, "left"))
                  t1   == Assign(t, Append(max, "right"), n.right)
                  temp == Deref(t1, Append(node, "left"))
              IN  [root |-> Assign(t1, node, temp), ret |-> keyptr]
         ELSE LET temp == n.right
              IN  [root |-> Assign(t, node, temp), ret |-> keyptr]

\* BSTree::removeByFusion.  temp is a pointer to the left child, so after the
\* write through findMax it denotes the left subtree with node->right attached.
RECURSIVE removeByFusion(_, _, _)
removeByFusion(t, node, key) ==
    LET n == Deref(t, node) IN
    IF n = nullptr THEN [root |-> t, ret |-> nullptr]
    ELSE IF n.key > key THEN removeByFusion(t, Append(node, "left"), key)
    ELSE IF n.key < key THEN removeByFusion(t, Append(node, "right"), key)
    ELSE LET keyptr == <<n.key>> IN
         IF n.left # nullptr
         THEN LET max  == findMax(t, Append(node, "left"))
                  t1   == Assign(t, Append(max, "right"), n.right)
                  temp == Deref(t1, Append(node, "left"))
              IN  [root |-> Assign(t1, node, temp), ret |-> keyptr]
         ELSE LET temp == n.right
              IN  [root |-> Assign(t, node, temp), ret |-> keyptr]

\* BSTree::remove(T, eRemove)
BSTremove(t, key, mode) ==
    IF mode = "COPY" THEN removeByCopy(t, <<>>, key)
    ELSE IF mode = "FUSION" THEN removeByFusion(t, <<>>, key)
    ELSE [root |-> t, ret |-> nullptr]

\* BSTree::removeMax
BSTremoveMax(t) ==
    IF t = nullptr THEN [root |-> t, ret |-> nullptr]
    ELSE LET max == findMax(t, <<>>)
         IN  removeByFusion(t, max, Deref(t, max).key)

\* removeMin locating the node with findMax
BSTremoveMin_findMax(t) ==
    IF t = nullptr THEN [root |-> t, ret |-> nullptr]
    ELSE LET min == findMax(t, <<>>)
         IN  removeByFusion(t, min, Deref(t, min).key)

\* BSTree::removeMin
BSTremoveMin(t) ==
    IF t = nullptr THEN [root |-> t, ret |-> nullptr]
    ELSE LET min == findMin(t, <<>>)
         IN  removeByFusion(t, min, Deref(t, min).key)

-----------------------------------------------------------------------------
(* AVLTree *)

\* node ? node->height : 0
Height(node) == IF node = nullptr THEN 0 ELSE node.height

\* AVLNode::updateHeight, on the node that slot ref points to
updateHeight(t, ref) ==
    LET n      == Deref(t, ref)
        leftH  == Height(n.left)
        rightH == Height(n.right)
    IN  Assign(t, Append(ref, "height"), (IF leftH > rightH THEN leftH ELSE rightH) + 1)

\* AVLTree::bFactor
bFactor(node) == Height(node.left) - Height(node.right)

\* AVLTree::rotateLeft.  The three pointer writes leave slot `node` pointing to
\* the old right child, whose left is the old node, whose right is temp.
rotateLeft(t, node) ==
    LET n    == Deref(t, node)
        r    == n.right
        temp == r.left
        t1   == Assign(t, node, [r EXCEPT !.left = [n EXCEPT !.right = temp]])
        t2   == updateHeight(t1, Append(node, "left"))
    IN  updateHeight(t2, node)

\* rotateRight without node->right->updateHeight(): the node moved down keeps
\* the height it had above
rotateRight_staleHeight(t, node) ==
    LET n    == Deref(t, node)
        l    == n.left
        temp == l.right
        t1   == Assign(t, node, [l EXCEPT !.right = [n EXCEPT !.left = temp]])
    IN  updateHeight(t1, node)

\* AVLTree::rotateRight
rotateRight(t, node) ==
    LET n    == Deref(t, node)
        l    == n.left
        temp == l.right
        t1   == Assign(t, node, [l EXCEPT !.right = [n EXCEPT !.left = temp]])
        t2   == updateHeight(t1, Append(node, "right"))
    IN  updateHeight(t2, node)

\* balance without the check of the child's balance factor: always a single
\* rotation
balance_single(t, node) ==
    LET t1 == updateHeight(t, node)
        n  == Deref(t1, node)
        bf == bFactor(n)
    IN  IF bf = 2 THEN rotateRight(t1, node)
        ELSE IF bf = -2 THEN rotateLeft(t1, node)
        ELSE t1

\* AVLTree::balance
balance(t, node) ==
    LET t1 == updateHeight(t, node)
        n  == Deref(t1, node)
        bf == bFactor(n)
    IN  IF bf = 2
        THEN LET t2 == IF bFactor(n.left) < 0
                       THEN rotateLeft(t1, Append(node, "left")) ELSE t1
             IN  rotateRight(t2, node)
        ELSE IF bf = -2
        THEN LET t2 == IF bFactor(n.right) > 0
                       THEN rotateRight(t1, Append(node, "right")) ELSE t1
             IN  rotateLeft(t2, node)
        ELSE t1

\* AVLTree::insert(Node*&, T&)
RECURSIVE AVLinsert(_, _, _)
AVLinsert(t, node, key) ==
    LET n == Deref(t, node) IN
    IF n = nullptr THEN [root |-> Assign(t, node, NewAVLNode(key)), ret |-> TRUE]
    ELSE IF key = n.key THEN [root |-> t, ret |-> FALSE]
    ELSE LET r == IF key < n.key THEN AVLinsert(t, Append(node, "left"), key)
                  ELSE AVLinsert(t, Append(node, "right"), key)
         IN  IF ~r.ret THEN [root |-> r.root, ret |-> FALSE]
             ELSE [root |-> balance(r.root, node), ret |-> TRUE]

\* AVLTree::balance, together with the rotations it makes: each rotation call
\* is recorded with its name and the slot it is handed
balanceTraced(t, node) ==
    LET t1 == updateHeight(t, node)
        n  == Deref(t1, node)
        bf == bFactor(n)
    IN  IF bf = 2
        THEN LET inner == bFactor(n.left) < 0
                 t2    == IF inner THEN rotateLeft(t1, Append(node, "left")) ELSE t1
             IN  [root |-> rotateRight(t2, node),
                  rots |-> (IF inner
                            THEN <<[name |-> "rotateLeft", at |-> Append(node, "left")]>>
                            ELSE <<>>)
                           \o <<[name |-> "rotateRight", at |-> node]>>]
        ELSE IF bf = -2
        THEN LET inner == bFactor(n.right) > 0
                 t2    == IF inner THEN rotateRight(t1, Append(node, "right")) ELSE t1
             IN  [root |-> rotateLeft(t2, node),
                  rots |-> (IF inner
                            THEN <<[name |-> "rotateRight", at |-> Append(node, "right")]>>
                            ELSE <<>>)
                           \o <<[name |-> "rotateLeft", at |-> node]>>]
        ELSE [root |-> t1, rots |-> <<>>]

\* AVLTree::insert(Node*&, T&), together with the rotations made by the
\* balance(node) calls on the way back, deepest first
RECURSIVE AVLinsertTraced(_, _, _)
AVLinsertTraced(t, node, key) ==
    LET n == Deref(t, node) IN
    IF n = nullptr
    THEN [root |-> Assign(t, node, NewAVLNode(key)), ret |-> TRUE, rots |-> <<>>]
    ELSE IF key = n.key THEN [root |-> t, ret |-> FALSE, rots |-> <<>>]
    ELSE LET r == IF key < n.key THEN AVLinsertTraced(t, Append(node, "left"), key)
                  ELSE AVLinsertTraced(t, Append(node, "right"), key)
         IN  IF ~r.ret THEN [root |-> r.root, ret |-> FALSE, rots |-> <<>>]
             ELSE LET b == balanceTraced(r.root, node)
                  IN  [root |-> b.root, ret |-> TRUE, rots |-> r.rots \o b.rots]

\* AVLTree::pullMax: the tree after detaching the greatest node below slot
\* `node`, and that node
RECURSIVE pullMax(_, _)
pullMax(t, node) ==
    LET n == Deref(t, node) IN
    IF n.right # nullptr
    THEN LET p == pullMax(t, Append(node, "right"))
         IN  [root |-> balance(p.root, node), max |-> p.max]
    ELSE [root |-> Assign(t, node, n.left), max |-> n]

\* remove without `node->key = max->key`: the pulled node is discarded and the
\* found node keeps its key
RECURSIVE AVLremove_noKeyCopy(_, _, _)
AVLremove_noKeyCopy(t, node, key) ==
    LET n == Deref(t, node) IN
    IF n = nullptr THEN [root |-> t, ret |-> nullptr]
    ELSE IF key < n.key
    THEN LET r == AVLremove_noKeyCopy(t, Append(node, "left"), key)
         IN  IF r.ret = nullptr THEN r
             ELSE [root |-> balance(r.root, node), ret |-> r.ret]
    ELSE IF key > n.key
    THEN LET r == AVLremove_noKeyCopy(t, Append(node, "right"), key)
         IN  IF r.ret = nullptr THEN r
             ELSE [root |-> balance(r.root, node), ret |-> r.ret]
    ELSE LET keyptr == <<n.key>> IN
         IF n.left # nullptr
         THEN LET p == pullMax(t, Append(node, "left"))
              IN  [root |-> balance(p.root, node), ret |-> keyptr]
         ELSE LET temp == n.right
              IN  [root |-> Assign(t, node, temp), ret |-> keyptr]

\* remove that rebalances on the way back whether or not the key was found
RECURSIVE AVLremove_balanceAlways(_, _, _)
AVLremove_balanceAlways(t, node, key) ==
    LET n == Deref(t, node) IN
    IF n = nullptr THEN [root |-> t, ret |-> nullptr]
    ELSE IF key < n.key
    THEN LET r == AVLremove_balanceAlways(t, Append(node, "left"), key)
         IN  [root |-> balance(r.root, node), ret |-> r.ret]
    ELSE IF key > n.key
    THEN LET r == AVLremove_balanceAlways(t, Append(node, "right"), key)
         IN  [root |-> balance(r.root, node), ret |-> r.ret]
    ELSE LET keyptr == <<n.key>> IN
         IF n.left # nullptr
         THEN LET p  == pullMax(t, Append(node, "left"))
                  t1 == Assign(p.root, Append(node, "key"), p.max.key)
              IN  [root |-> balance(t1, node), ret |-> keyptr]
         ELSE LET temp == n.right
              IN  [root |-> Assign(t, node, temp), ret |-> keyptr]

\* AVLTree::remove(Node*&, T&)
RECURSIVE AVLremove(_, _, _)
AVLremove(t, node, key) ==
    LET n == Deref(t, node) IN
    IF n = nullptr THEN [root |-> t, ret |-> nullptr]
    ELSE IF key < n.key
    THEN LET r == AVLremove(t, Append(node, "left"), key)
         IN  IF r.ret = nullptr THEN r
             ELSE [root |-> balance(r.root, node), ret |-> r.ret]
    ELSE IF key > n.key
    THEN LET r == AVLremove(t, Append(node, "right"), key)
         IN  IF r.ret = nullptr THEN r
             ELSE [root |-> balance(r.root, node), ret |-> r.ret]
    ELSE LET keyptr == <<n.key>> IN
         IF n.left # nullptr
         THEN LET p  == pullMax(t, Append(node, "left"))
                  t1 == Assign(p.root, Append(node, "key"), p.max.key)
              IN  [root |-> balance(t1, node), ret |-> keyptr]
         ELSE LET temp == n.right
              IN  [root |-> Assign(t, node, temp), ret |-> keyptr]

\* AVLTree::removeMax
AVLremoveMax(t) ==
    IF t = nullptr THEN [root |-> t, ret |-> nullptr]
    ELSE LET max == findMax(t, <<>>)
         IN  AVLremove(t, max, Deref(t, max).key)

\* AVLTree::removeMin
AVLremoveMin(t) ==
    IF t = nullptr THEN [root |-> t, ret |-> nullptr]
    ELSE LET min == findMin(t, <<>>)
         IN  AVLremove(t, min, Deref(t, min).key)

-----------------------------------------------------------------------------
(* The same methods on node objects.  The heap holds a cell per address:    *)
(* free, or a node [key, left, right] (BSTNode) or with height (AVLNode)   *)
(* whose left and right fields are addresses.  A `Node *&` is a slot: the  *)
(* root pointer of the tree object, or the left or right field of the node *)
(* at an address.  Every method takes the heap and returns the heap after  *)
(* its writes, its new and its delete calls, with its return value.        *)

NULL == 0
HeapKeys == 1..HeapMaxKey
\* one address more than keys, so that new always finds a free cell unless
\* nodes were leaked
Addrs == 1..(HeapMaxKey + 1)

FreeCell == [used |-> FALSE]

\* a tree object as constructed: root = nullptr, no node allocated
EmptyHeap ==
    [root |-> NULL, mem |-> [a \in Addrs |-> FreeCell],
     news |-> 0, deletes |-> 0, bad |-> FALSE, ret |-> nullptr]

RootSlot == <<NULL, "root">>
LeftOf(a) == <<a, "left">>
RightOf(a) == <<a, "right">>

\* reading and writing through a Node *&
Load(h, slot) == IF slot = RootSlot THEN h.root ELSE h.mem[slot[1]][slot[2]]
Store(h, slot, a) ==
    IF slot = RootSlot THEN [h EXCEPT !.root = a]
    ELSE [h EXCEPT !.mem[slot[1]][slot[2]] = a]

\* the address new returns: a free cell (the lowest, addresses being
\* interchangeable)
NewAddr(h) ==
    CHOOSE a \in Addrs : ~h.mem[a].used /\ \A b \in 1..(a - 1) : h.mem[b].used

\* new Node(key) placed at NewAddr(h)
NewBSTNodeH(h, key) ==
    [h EXCEPT !.mem[NewAddr(h)] =
                [used |-> TRUE, key |-> key, left |-> NULL, right |-> NULL],
              !.news = @ + 1]
NewAVLNodeH(h, key) ==
    [h EXCEPT !.mem[NewAddr(h)] =
                [used |-> TRUE, key |-> key, left |-> NULL, right |-> NULL,
                 height |-> 1],
              !.news = @ + 1]

\* delete a: the cell is free afterwards; deleting a cell that is not a live
\* node is recorded as bad
Delete(h, a) ==
    IF a = NULL THEN h
    ELSE [h EXCEPT !.mem[a] = FreeCell,
                   !.deletes = @ + 1,
                   !.bad = @ \/ ~h.mem[a].used]

\* BSTree::insert(Node*&, T&)
RECURSIVE BSTinsertH(_, _, _)
BSTinsertH(h, node, key) ==
    LET a == Load(h, node) IN
    IF a = NULL
    THEN [heap |-> Store(NewBSTNodeH(h, key), node, NewAddr(h)), ret |-> TRUE]
    ELSE IF key < h.mem[a].key THEN BSTinsertH(h, LeftOf(a), key)
    ELSE IF key > h.mem[a].key THEN BSTinsertH(h, RightOf(a), key)
    ELSE [heap |-> h, ret |-> FALSE]

\* BSTree::findMax: the slot that points to the greatest node below slot ref
RECURSIVE findMaxH(_, _)
findMaxH(h, ref) ==
    LET a == Load(h, ref) IN
    IF h.mem[a].right # NULL THEN findMaxH(h, RightOf(a)) ELSE ref

\* BSTree::findMin
RECURSIVE findMinH(_, _)
findMinH(h, ref) ==
    LET a == Load(h, ref) IN
    IF h.mem[a].left # NULL THEN findMinH(h, LeftOf(a)) ELSE ref

\* BSTree::removeByCopy
RECURSIVE removeByCopyH(_, _, _)
removeByCopyH(h, node, key) ==
    LET a == Load(h, node) IN
    IF a = NULL THEN [heap |-> h, ret |-> nullptr]
    ELSE IF h.mem[a].key > key THEN removeByCopyH(h, LeftOf(a), key)
    ELSE IF h.mem[a].key < key THEN removeByCopyH(h, RightOf(a), key)
    ELSE LET keyptr == <<h.mem[a].key>> IN
         IF h.mem[a].left # NULL
         THEN LET max  == findMaxH(h, LeftOf(a))
                  h1   == [h EXCEPT !.mem[a].key = h.mem[Load(h, max)].key]
                  temp == h1.mem[Load(h1, max)].left
                  h2   == Delete(h1, Load(h1, max))
              IN  [heap |-> Store(h2, max, temp), ret |-> keyptr]
         ELSE LET temp == h.mem[a].right
                  h1   == Delete(h, Load(h, node))
              IN  [heap |-> Store(h1, node, temp), ret |-> keyptr]

\* removeByFusion that never deletes the node it unlinks
RECURSIVE removeByFusionH_noDelete(_, _, _)
removeByFusionH_noDelete(h, node, key) ==
    LET a == Load(h, node) IN
    IF a = NULL THEN [heap |-> h, ret |-> nullptr]
    ELSE IF h.mem[a].key > key THEN removeByFusionH_noDelete(h, LeftOf(a), key)
    ELSE IF h.mem[a].key < key THEN removeByFusionH_noDelete(h, RightOf(a), key)
    ELSE LET keyptr == <<h.mem[a].key>>
             fuse   == h.mem[a].left # NULL
             temp   == IF fuse THEN h.mem[a].left ELSE h.mem[a].right
             h1     == IF fuse
                       THEN Store(h, RightOf(Load(h, findMaxH(h, LeftOf(a)))),
                                  h.mem[a].right)
                       ELSE h
         IN  [heap |-> Store(h1, node, temp), ret |-> keyptr]

\* BSTree::removeByFusion
RECURSIVE removeByFusionH(_, _, _)
removeByFusionH(h, node, key) ==
    LET a == Load(h, node) IN
    IF a = NULL THEN [heap |-> h, ret |-> nullptr]
    ELSE IF h.mem[a].key > key THEN removeByFusionH(h, LeftOf(a), key)
    ELSE IF h.mem[a].key < key THEN removeByFusionH(h, RightOf(a), key)
    ELSE LET keyptr == <<h.mem[a].key>>
             fuse   == h.mem[a].left # NULL
             temp   == IF fuse THEN h.mem[a].left ELSE h.mem[a].right
             h1     == IF fuse
                       THEN Store(h, RightOf(Load(h, findMaxH(h, LeftOf(a)))),
                                  h.mem[a].right)
                       ELSE h
             h2     == Delete(h1, Load(h1, node))
         IN  [heap |-> Store(h2, node, temp), ret |-> keyptr]

\* BSTree::remove(T, eRemove)
BSTremoveH(h, key, mode) ==
    IF mode = "COPY" THEN removeByCopyH(h, RootSlot, key)
    ELSE IF mode = "FUSION" THEN removeByFusionH(h, RootSlot, key)
    ELSE [heap |-> h, ret |-> nullptr]

\* BSTree::removeMax
BSTremoveMaxH(h) ==
    IF h.root = NULL THEN [heap |-> h, ret |-> nullptr]
    ELSE LET max == findMaxH(h, RootSlot)
         IN  removeByFusionH(h, max, h.mem[Load(h, max)].key)

\* BSTree::removeMin
BSTremoveMinH(h) ==
    IF h.root = NULL THEN [heap |-> h, ret |-> nullptr]
    ELSE LET min == findMinH(h, RootSlot)
         IN  removeByFusionH(h, min, h.mem[Load(h, min)].key)

\* BSTree::destroy
RECURSIVE destroyH(_, _)
destroyH(h, a) ==
    IF a # NULL
    THEN LET h1 == destroyH(h, h.mem[a].left)
             h2 == destroyH(h1, h1.mem[a].right)
         IN  Delete(h2, a)
    ELSE h

\* BSTree::clear
clearH(h) == [destroyH(h, h.root) EXCEPT !.root = NULL]

\* AVLNode::updateHeight of the node at address a
updateHeightH(h, a) ==
    LET leftH  == IF h.mem[a].left # NULL THEN h.mem[h.mem[a].left].height ELSE 0
        rightH == IF h.mem[a].right # NULL THEN h.mem[h.mem[a].right].height ELSE 0
    IN  [h EXCEPT !.mem[a].height = (IF leftH > rightH THEN leftH ELSE rightH) + 1]

\* AVLTree::bFactor of the node at address a
bFactorH(h, a) ==
    (IF h.mem[a].left # NULL THEN h.mem[h.mem[a].left].height ELSE 0)
    - (IF h.mem[a].right # NULL THEN h.mem[h.mem[a].right].height ELSE 0)

\* AVLTree::rotateLeft, statement by statement
rotateLeftH(h, node) ==
    LET temp == h.mem[h.mem[Load(h, node)].right].left
        h1   == Store(h, LeftOf(h.mem[Load(h, node)].right), Load(h, node))
        h2   == Store(h1, node, h1.mem[Load(h1, node)].right)
        h3   == Store(h2, RightOf(h2.mem[Load(h2, node)].left), temp)
        h4   == updateHeightH(h3, h3.mem[Load(h3, node)].left)
    IN  updateHeightH(h4, Load(h4, node))

\* AVLTree::rotateRight
rotateRightH(h, node) ==
    LET temp == h.mem[h.mem[Load(h, node)].left].right
        h1   == Store(h, RightOf(h.mem[Load(h, node)].left), Load(h, node))
        h2   == Store(h1, node, h1.mem[Load(h1, node)].left)
        h3   == Store(h2, LeftOf(h2.mem[Load(h2, node)].right), temp)
        h4   == updateHeightH(h3, h3.mem[Load(h3, node)].right)
    IN  updateHeightH(h4, Load(h4, node))

\* AVLTree::balance
balanceH(h, node) ==
    LET h1 == updateHeightH(h, Load(h, node))
        n  == Load(h1, node)
        bf == bFactorH(h1, n)
    IN  IF bf = 2
        THEN LET h2 == IF bFactorH(h1, h1.mem[n].left) < 0
                       THEN rotateLeftH(h1, LeftOf(n)) ELSE h1
             IN  rotateRightH(h2, node)
        ELSE IF bf = -2
        THEN LET h2 == IF bFactorH(h1, h1.mem[n].right) > 0
                       THEN rotateRightH(h1, RightOf(n)) ELSE h1
             IN  rotateLeftH(h2, node)
        ELSE h1

\* AVLTree::insert(Node*&, T&)
RECURSIVE AVLinsertH(_, _, _)
AVLinsertH(h, node, key) ==
    LET a == Load(h, node) IN
    IF a = NULL
    THEN [heap |-> Store(NewAVLNodeH(h, key), node, NewAddr(h)), ret |-> TRUE]
    ELSE IF key = h.mem[a].key THEN [heap |-> h, ret |-> FALSE]
    ELSE LET r == IF key < h.mem[a].key THEN AVLinsertH(h, LeftOf(a), key)
                  ELSE AVLinsertH(h, RightOf(a), key)
         IN  IF ~r.ret THEN r
             ELSE [heap |-> balanceH(r.heap, node), ret |-> TRUE]

\* AVLTree::pullMax: the heap after, and the address of the node taken out
RECURSIVE pullMaxH(_, _)
pullMaxH(h, node) ==
    LET n == Load(h, node) IN
    IF h.mem[n].right # NULL
    THEN LET p == pullMaxH(h, RightOf(n))
         IN  [heap |-> balanceH(p.heap, node), max |-> p.max]
    ELSE [heap |-> Store(h, node, h.mem[n].left), max |-> n]

\* AVLTree::remove(Node*&, T&)
RECURSIVE AVLremoveH(_, _, _)
AVLremoveH(h, node, key) ==
    LET a == Load(h, node) IN
    IF a = NULL THEN [heap |-> h, ret |-> nullptr]
    ELSE IF key # h.mem[a].key
    THEN LET r == IF key < h.mem[a].key THEN AVLremoveH(h, LeftOf(a), key)
                  ELSE AVLremoveH(h, RightOf(a), key)
         IN  IF r.ret = nullptr THEN r
             ELSE [heap |-> balanceH(r.heap, node), ret |-> r.ret]
    ELSE LET keyptr == <<h.mem[a].key>> IN
         IF h.mem[a].left # NULL
         THEN LET p  == pullMaxH(h, LeftOf(a))
                  h1 == [p.heap EXCEPT !.mem[Load(p.heap, node)].key =
                                            p.heap.mem[p.max].key]
                  h2 == Delete(h1, p.max)
              IN  [heap |-> balanceH(h2, node), ret |-> keyptr]
         ELSE LET temp == h.mem[a].right
                  h1   == Delete(h, Load(h, node))
              IN  [heap |-> Store(h1, node, temp), ret |-> keyptr]

\* AVLTree::removeMax
AVLremoveMaxH(h) ==
    IF h.root = NULL THEN [heap |-> h, ret |-> nullptr]
    ELSE LET max == findMaxH(h, RootSlot)
         IN  AVLremoveH(h, max, h.mem[Load(h, max)].key)

\* AVLTree::removeMin
AVLremoveMinH(h) ==
    IF h.root = NULL THEN [heap |-> h, ret |-> nullptr]
    ELSE LET min == findMinH(h, RootSlot)
         IN  AVLremoveH(h, min, h.mem[Load(h, min)].key)

-----------------------------------------------------------------------------
(* The public calls.  insert, remove(key), removeMax and removeMin are       *)
(* virtual: the object's class picks the implementation.                    *)

\* the keys a returned unique_ptr<T> hands over: none when it is absent
Returned(keyptr) == {keyptr[i] : i \in 1..Len(keyptr)}

\* no drain loop is running
Idle == [phase |-> "idle"]

\* the last call was not a successful insert, nor a remove right after one
NoTrip == [open |-> FALSE, done |-> FALSE]

\* a remove(key) call: it closes the round trip if it directly follows the
\* successful insert of the same key
AfterRemove(key) ==
    IF trip.open /\ trip.key = key
    THEN [open |-> FALSE, done |-> TRUE, key |-> key, was |-> trip.was]
    ELSE NoTrip

Init ==
    /\ kind \in {"BST", "AVL"}
    /\ root = nullptr
    /\ op = [name |-> "new"]
    /\ ret = nullptr
    /\ before = <<>>
    /\ trip = NoTrip
    /\ drain = Idle
    /\ live = {}
    /\ insRots = <<>>
    /\ heap = EmptyHeap

\* BSTree::insert(T key), dispatching to the virtual insert(root, key)
Insert(key) ==
    LET r == IF kind = "AVL" THEN AVLinsert(root, <<>>, key)
             ELSE BSTinsert(root, <<>>, key)
    IN  /\ root' = r.root
        /\ ret' = r.ret
        /\ op' = [name |-> "insert", key |-> key]
        /\ before' = inorder(root)
        /\ trip' = IF r.ret
                   THEN [open |-> TRUE, done |-> FALSE, key |-> key, was |-> inorder(root)]
                   ELSE NoTrip
        /\ live' = IF ret' THEN live \cup {key} ELSE live
        /\ insRots' = IF kind = "AVL" THEN AVLinsertTraced(root, <<>>, key).rots
                      ELSE <<>>
        /\ UNCHANGED <<kind, drain>>

\* remove(T key): BSTree::remove removes by COPY, AVLTree::remove overrides it
Remove(key) ==
    LET r == IF kind = "AVL" THEN AVLremove(root, <<>>, key)
             ELSE BSTremove(root, key, "COPY")
    IN  /\ root' = r.root
        /\ ret' = r.ret
        /\ op' = [name |-> "remove", key |-> key]
        /\ before' = inorder(root)
        /\ trip' = AfterRemove(key)
        /\ live' = live \ Returned(ret')
        /\ insRots' = <<>>
        /\ UNCHANGED <<kind, drain>>

\* BSTree::remove(T key, eRemove mode), on a BSTree
RemoveMode(key, mode) ==
    /\ kind = "BST"
    /\ LET r == BSTremove(root, key, mode)
       IN  /\ root' = r.root
           /\ ret' = r.ret
           /\ live' = live \ Returned(ret')
    /\ insRots' = <<>>
    /\ op' = [name |-> "removeMode", key |-> key, mode |-> mode]
    /\ before' = inorder(root)
    /\ trip' = AfterRemove(key)
    /\ UNCHANGED <<kind, drain>>

\* removeMax()
RemoveMax ==
    LET r == IF kind = "AVL" THEN AVLremoveMax(root) ELSE BSTremoveMax(root)
    IN  /\ root' = r.root
        /\ ret' = r.ret
        /\ op' = [name |-> "removeMax"]
        /\ before' = inorder(root)
        /\ trip' = NoTrip
        /\ live' = live \ Returned(ret')
        /\ insRots' = <<>>
        /\ UNCHANGED <<kind, drain>>

\* removeMin()
RemoveMin ==
    LET r == IF kind = "AVL" THEN AVLremoveMin(root) ELSE BSTremoveMin(root)
    IN  /\ root' = r.root
        /\ ret' = r.ret
        /\ op' = [name |-> "removeMin"]
        /\ before' = inorder(root)
        /\ trip' = NoTrip
        /\ live' = live \ Returned(ret')
        /\ insRots' = <<>>
        /\ UNCHANGED <<kind, drain>>

\* clear that deletes the nodes but leaves root pointing where it did
Clear_keepRoot ==
    /\ root' = root
    /\ ret' = nullptr
    /\ op' = [name |-> "clear"]
    /\ before' = inorder(root)
    /\ trip' = NoTrip
    /\ live' = {}
    /\ insRots' = <<>>
    /\ UNCHANGED <<kind, drain>>

\* BSTree::clear: destroy(root); root = nullptr.  Returns nothing.
Clear ==
    /\ root' = nullptr
    /\ ret' = nullptr
    /\ op' = [name |-> "clear"]
    /\ before' = inorder(root)
    /\ trip' = NoTrip
    /\ live' = {}
    /\ insRots' = <<>>
    /\ UNCHANGED <<kind, drain>>

Next ==
    \/ \E key \in Keys : Insert(key) /\ UNCHANGED heap
    \/ \E key \in Keys : Remove(key) /\ UNCHANGED heap
    \/ \E key \in Keys, mode \in Modes : RemoveMode(key, mode) /\ UNCHANGED heap
    \/ RemoveMax /\ UNCHANGED heap
    \/ RemoveMin /\ UNCHANGED heap
    \/ Clear /\ UNCHANGED heap

Spec == Init /\ [][Next]_vars

\* A caller's loop `while (!t.isEmpty()) { t.removeMin(); ... t.removeMax(); }`
\* taking removeMin() and removeMax() in turn, started on any tree: one
\* iteration.  keys0 is the in-order sequence the loop started from, got the
\* keys the calls returned, calls the number of calls made in the loop.
DrainStep(turn) ==
    /\ drain.phase \in {"idle", "loop"}
    /\ drain.phase = "loop" => turn = drain.turn
    /\ ~isEmpty(root)
    /\ LET r == IF turn = "min"
                THEN (IF kind = "AVL" THEN AVLremoveMin(root) ELSE BSTremoveMin(root))
                ELSE (IF kind = "AVL" THEN AVLremoveMax(root) ELSE BSTremoveMax(root))
       IN  /\ root' = r.root
           /\ ret' = r.ret
           /\ live' = live \ Returned(ret')
           /\ drain' = [phase |-> "loop",
                        keys0 |-> IF drain.phase = "idle" THEN inorder(root)
                                  ELSE drain.keys0,
                        got   |-> (IF drain.phase = "idle" THEN <<>> ELSE drain.got)
                                  \o r.ret,
                        calls |-> (IF drain.phase = "idle" THEN 0 ELSE drain.calls) + 1,
                        turn  |-> IF turn = "min" THEN "max" ELSE "min"]
    /\ op' = [name |-> IF turn = "min" THEN "removeMin" ELSE "removeMax"]
    /\ before' = inorder(root)
    /\ trip' = NoTrip
    /\ insRots' = <<>>
    /\ UNCHANGED <<kind, heap>>

\* The loop has ended (isEmpty() is true); the caller makes one further
\* removeMin() or removeMax() call.
DrainFurther(turn) ==
    /\ drain.phase \in {"idle", "loop"}
    /\ isEmpty(root)
    /\ LET r == IF turn = "min"
                THEN (IF kind = "AVL" THEN AVLremoveMin(root) ELSE BSTremoveMin(root))
                ELSE (IF kind = "AVL" THEN AVLremoveMax(root) ELSE BSTremoveMax(root))
       IN  /\ root' = r.root
           /\ ret' = r.ret
           /\ live' = live \ Returned(ret')
    /\ drain' = [phase |-> "after",
                 keys0 |-> IF drain.phase = "idle" THEN <<>> ELSE drain.keys0,
                 got   |-> IF drain.phase = "idle" THEN <<>> ELSE drain.got,
                 calls |-> IF drain.phase = "idle" THEN 0 ELSE drain.calls]
    /\ op' = [name |-> IF turn = "min" THEN "removeMin" ELSE "removeMax"]
    /\ before' = inorder(root)
    /\ trip' = NoTrip
    /\ insRots' = <<>>
    /\ UNCHANGED <<kind, heap>>

NextDrain ==
    \/ drain.phase = "idle" /\ Next
    \/ \E turn \in {"min", "max"} : DrainStep(turn)
    \/ \E turn \in {"min", "max"} : DrainFurther(turn)

SpecDrain == Init /\ [][NextDrain]_vars

\* AVLTree objects driven by insert(key) and remove(key) only
InitAVL ==
    /\ kind = "AVL"
    /\ root = nullptr
    /\ op = [name |-> "new"]
    /\ ret = nullptr
    /\ before = <<>>
    /\ trip = NoTrip
    /\ drain = Idle
    /\ live = {}
    /\ insRots = <<>>
    /\ heap = EmptyHeap

NextAVL ==
    \/ \E key \in Keys : Insert(key) /\ UNCHANGED heap
    \/ \E key \in Keys : Remove(key) /\ UNCHANGED heap

SpecAVL == InitAVL /\ [][NextAVL]_vars

\* The same calls with the node objects followed.  A call starts with its new
\* and delete counts at zero and leaves the value it returned with the heap.
Begin(h) == [h EXCEPT !.news = 0, !.deletes = 0]
Done(r) == [r.heap EXCEPT !.ret = r.ret]

HeapInsert(key) ==
    /\ \E a \in Addrs : ~heap.mem[a].used
    /\ Insert(key)
    /\ heap' = Done(IF kind = "AVL" THEN AVLinsertH(Begin(heap), RootSlot, key)
                    ELSE BSTinsertH(Begin(heap), RootSlot, key))

HeapRemove(key) ==
    /\ Remove(key)
    /\ heap' = Done(IF kind = "AVL" THEN AVLremoveH(Begin(heap), RootSlot, key)
                    ELSE BSTremoveH(Begin(heap), key, "COPY"))

HeapRemoveMode(key, mode) ==
    /\ RemoveMode(key, mode)
    /\ heap' = Done(BSTremoveH(Begin(heap), key, mode))

HeapRemoveMax ==
    /\ RemoveMax
    /\ heap' = Done(IF kind = "AVL" THEN AVLremoveMaxH(Begin(heap))
                    ELSE BSTremoveMaxH(Begin(heap)))

HeapRemoveMin ==
    /\ RemoveMin
    /\ heap' = Done(IF kind = "AVL" THEN AVLremoveMinH(Begin(heap))
                    ELSE BSTremoveMinH(Begin(heap)))

HeapClear ==
    /\ Clear
    /\ heap' = [clearH(Begin(heap)) EXCEPT !.ret = nullptr]

NextHeap ==
    \/ \E key \in HeapKeys : HeapInsert(key)
    \/ \E key \in HeapKeys : HeapRemove(key)
    \/ \E key \in HeapKeys, mode \in Modes : HeapRemoveMode(key, mode)
    \/ HeapRemoveMax
    \/ HeapRemoveMin
    \/ HeapClear

SpecHeap == Init /\ [][NextHeap]_vars

-----------------------------------------------------------------------------
(* Measures of a tree used to state the properties *)

\* the keys stored below a pointer
RECURSIVE KeysOf(_)
KeysOf(node) ==
    IF node = nullptr THEN {}
    ELSE KeysOf(node.left) \cup {node.key} \cup KeysOf(node.right)

\* the number of nodes below a pointer
RECURSIVE Size(_)
Size(node) ==
    IF node = nullptr THEN 0 ELSE Size(node.left) + 1 + Size(node.right)

\* the number of levels on the longest path down from a pointer
RECURSIVE Depth(_)
Depth(node) ==
    IF node = nullptr THEN 0
    ELSE LET l == Depth(node.left)
             r == Depth(node.right)
         IN  (IF l > r THEN l ELSE r) + 1

\* every node separates the keys of its two subtrees
RECURSIVE Ordered(_)
Ordered(node) ==
    \/ node = nullptr
    \/ /\ \A k \in KeysOf(node.left) : k < node.key
       /\ \A k \in KeysOf(node.right) : k > node.key
       /\ Ordered(node.left)
       /\ Ordered(node.right)

StrictlyAscending(s) == \A i \in 1..(Len(s) - 1) : s[i] < s[i + 1]

\* every node's cached height is the recursive height and its subtrees'
\* heights differ by at most one
RECURSIVE Balanced(_)
Balanced(node) ==
    \/ node = nullptr
    \/ /\ node.height = Depth(node)
       /\ Depth(node.left) - Depth(node.right) \in {-1, 0, 1}
       /\ Balanced(node.left)
       /\ Balanced(node.right)

\* s with the element k taken out
Without(s, k) == SelectSeq(s, LAMBDA x : x # k)

-----------------------------------------------------------------------------
(* Properties *)

\* C1: in every reachable state of a BSTree or an AVLTree every node's left
\* subtree holds only smaller keys and its right subtree only greater keys,
\* and the in-order traversal is strictly ascending (no duplicate key).
C1_BSTOrdering ==
    /\ Ordered(root)
    /\ StrictlyAscending(inorder(root))

\* a BSTree that a successful remove(key, FUSION) left as a single chain of
\* three or more nodes
C1_Witness ==
    /\ kind = "BST"
    /\ op.name = "removeMode"
    /\ op.mode = "FUSION"
    /\ ret = <<op.key>>
    /\ Size(root) >= 3
    /\ Depth(root) = Size(root)

\* C2: in an AVLTree reached from empty by insert(key) and remove(key) calls,
\* every node's cached height is 1 + max of its children's heights and its
\* children's heights differ by at most 1.
C2_AVLBalance == Balanced(root)

\* an AVLTree of three levels after a successful remove(key)
C2_Witness ==
    /\ op.name = "remove"
    /\ ret = <<op.key>>
    /\ Depth(root) >= 3
    /\ Size(root) = 4

\* the least number of nodes of a height-balanced tree of h levels
RECURSIVE MinNodes(_)
MinNodes(h) ==
    IF h = 0 THEN 0
    ELSE IF h = 1 THEN 1
    ELSE MinNodes(h - 1) + MinNodes(h - 2) + 1

\* C3: from an AVLTree with correct cached heights and balance factors within
\* -1..1, removeMax() and removeMin() leave every node again with a correct
\* cached height and a balance factor within -1..1.
C3_ExtremeRemovalKeepsBalance ==
    [][(/\ kind = "AVL"
        /\ Balanced(root)
        /\ op'.name \in {"removeMax", "removeMin"}) => Balanced(root')]_vars

\* C4: an AVLTree of n nodes and h levels has n >= N(h), where N(0) = 0,
\* N(1) = 1, N(h) = N(h-1) + N(h-2) + 1.
C4_LogarithmicDepth ==
    kind = "AVL" => Size(root) >= MinNodes(Depth(root))

\* C5: insert(key) of a key already present returns false and leaves the tree
\* as it was: same nodes, same keys, same cached heights.
C5_DuplicateInsert ==
    [][(/\ op'.name = "insert"
        /\ get(root, op'.key) # nullptr)
       => (/\ ret' = FALSE
           /\ root' = root
           /\ inorder(root') = inorder(root))]_vars

\* an AVLTree of three or more keys after an insert that returned false
C5_Witness ==
    /\ kind = "AVL"
    /\ op.name = "insert"
    /\ ret = FALSE
    /\ Size(root) >= 3

\* C6: remove(key) of a key that is not present, by COPY, by FUSION or on an
\* AVLTree, returns an absent pointer and leaves the tree as it was.
C6_RemoveMissing ==
    [][(/\ op'.name \in {"remove", "removeMode"}
        /\ get(root, op'.key) = nullptr)
       => (/\ ret' = nullptr
           /\ root' = root)]_vars

\* an AVLTree of three or more keys after a remove that returned absent
C6_Witness ==
    /\ kind = "AVL"
    /\ op.name = "remove"
    /\ ret = nullptr
    /\ Size(root) >= 3

\* C7: remove of a present key k returns k and leaves the in-order sequence
\* with exactly k deleted.  The step is any of remove(k, COPY), remove(k, FUSION),
\* BSTree::remove(k) and AVLTree::remove(k), and the sequence left depends on
\* the sequence before and on k only, so COPY and FUSION leave the same one.
C7_RemoveExact ==
    [][(/\ op'.name \in {"remove", "removeMode"}
        /\ get(root, op'.key) # nullptr)
       => (/\ ret' = <<op'.key>>
           /\ inorder(root') = Without(inorder(root), op'.key))]_vars

\* a BSTree of four or more keys after remove(key, FUSION) took a key that
\* was neither the least nor the greatest
C7_Witness ==
    /\ kind = "BST"
    /\ op.name = "removeMode"
    /\ op.mode = "FUSION"
    /\ ret = <<op.key>>
    /\ Len(before) >= 4
    /\ \E i \in 2..(Len(before) - 1) : before[i] = op.key
    /\ Len(inorder(root)) = Len(before) - 1

\* the slot that points to the node holding key
RECURSIVE SlotOf(_, _, _)
SlotOf(t, ref, key) ==
    LET n == Deref(t, ref) IN
    IF key < n.key THEN SlotOf(t, Append(ref, "left"), key)
    ELSE IF key > n.key THEN SlotOf(t, Append(ref, "right"), key)
    ELSE ref

\* key is held by a node with two children
TwoChildren(t, key) ==
    /\ get(t, key) # nullptr
    /\ Deref(t, SlotOf(t, <<>>, key)).left # nullptr
    /\ Deref(t, SlotOf(t, <<>>, key)).right # nullptr

\* the number of nodes met following right links from a pointer
RECURSIVE RightSpine(_)
RightSpine(node) ==
    IF node = nullptr THEN 0 ELSE 1 + RightSpine(node.right)

\* C8 as claimed: for a key held by a node with two children, the tree, and
\* the subtree at the removed node's position, is not higher after
\* remove(key, FUSION) than after remove(key, COPY) on the same tree.
C8_FusionNotDeeperThanCopy ==
    kind = "BST" =>
        \A k \in Keys :
            TwoChildren(root, k) =>
                LET at == SlotOf(root, <<>>, k)
                    f  == BSTremove(root, k, "FUSION").root
                    c  == BSTremove(root, k, "COPY").root
                IN  /\ Depth(f) <= Depth(c)
                    /\ Depth(Deref(f, at)) <= Depth(Deref(c, at))

\* C8 amended: FUSION may leave the tree higher than COPY, by at most s - 1
\* levels, where s is the number of nodes on the right spine of the removed
\* node's left subtree (the left child, its right child, and so on down to the
\* left subtree's maximum).  It is not higher when the left child has no right
\* child.
C8_FusionDepthBound ==
    kind = "BST" =>
        \A k \in Keys :
            TwoChildren(root, k) =>
                LET at == SlotOf(root, <<>>, k)
                    s  == RightSpine(Deref(root, at).left)
                    f  == BSTremove(root, k, "FUSION").root
                    c  == BSTremove(root, k, "COPY").root
                IN  /\ Depth(f) <= Depth(c) + s - 1
                    /\ Depth(Deref(f, at)) <= Depth(Deref(c, at)) + s - 1

\* a BSTree with a two-children node whose FUSION removal leaves the tree
\* strictly higher than its COPY removal, by the full s - 1 levels
C8_Witness ==
    /\ kind = "BST"
    /\ \E k \in Keys :
        /\ TwoChildren(root, k)
        /\ LET s == RightSpine(Deref(root, SlotOf(root, <<>>, k)).left)
           IN  /\ s >= 2
               /\ Depth(BSTremove(root, k, "FUSION").root)
                    = Depth(BSTremove(root, k, "COPY").root) + s - 1

\* C9: when insert(k) succeeded and remove(k) is the next call (by COPY, by
\* FUSION or on an AVLTree), remove returns k and the in-order sequence is
\* again the one the tree had before k was inserted.
C9_RoundTrip ==
    trip.done =>
        /\ ret = <<trip.key>>
        /\ inorder(root) = trip.was

\* an AVLTree of four keys or more on which a round trip has just been made
C9_Witness ==
    /\ kind = "AVL"
    /\ trip.done
    /\ op.name = "remove"
    /\ Size(root) >= 4

\* the keys of a sequence
Range(s) == {s[i] : i \in 1..Len(s)}

\* s without its last element
Front(s) == SubSeq(s, 1, Len(s) - 1)

Greatest(S) == CHOOSE m \in S : \A k \in S : k <= m
Least(S) == CHOOSE m \in S : \A k \in S : m <= k

\* C11: after any sequence of calls, get(k) returns the stored key when k was
\* successfully inserted and not removed since, and absent otherwise;
\* getMax() and getMin() return the greatest and the least such key, and
\* absent exactly when the tree is empty.
C11_LookupAgreesWithLiveKeys ==
    /\ \A k \in Keys : get(root, k) = IF k \in live THEN <<k>> ELSE nullptr
    /\ getMax(root) = IF live = {} THEN nullptr ELSE <<Greatest(live)>>
    /\ getMin(root) = IF live = {} THEN nullptr ELSE <<Least(live)>>
    /\ (getMax(root) = nullptr) <=> isEmpty(root)
    /\ (getMin(root) = nullptr) <=> isEmpty(root)

\* the BSTree of the usage example: f, m, e, a inserted (keys 6, 7, 5, 1 in
\* the same order as the letters), then removeMin() has returned a; b (key 2)
\* is looked up absent and the greatest key is m
C11_Witness ==
    /\ kind = "BST"
    /\ op.name = "removeMin"
    /\ ret = <<1>>
    /\ before = <<1, 5, 6, 7>>
    /\ root = [key |-> 6, left |-> NewBSTNode(5), right |-> NewBSTNode(7)]
    /\ live = {5, 6, 7}
    /\ get(root, 2) = nullptr
    /\ getMax(root) = <<7>>

\* an AVL node with its cached height written out
AVLNodeOf(key, height, left, right) ==
    [key |-> key, height |-> height, left |-> left, right |-> right]

\* one rotateRight call, made on the root slot
OneRightRotationAtRoot == <<[name |-> "rotateRight", at |-> <<>>]>>

\* C12: three distinct keys a > b > c inserted in this order into an empty
\* AVLTree make exactly one rotation, a single rotateRight at the root during
\* the third insert; the first two inserts rotate nothing.  Afterwards b is
\* the root (height 2) with c as its left and a as its right child (height 1
\* each), and the in-order output is c, b, a ascending.
C12_LeftLeftCase ==
    [][(kind = "AVL" /\ op'.name = "insert") =>
        /\ root' = AVLinsertTraced(root, <<>>, op'.key).root
        /\ root = nullptr =>
            /\ insRots' = <<>>
            /\ root' = NewAVLNode(op'.key)
        /\ \A a \in Keys :
            (root = NewAVLNode(a) /\ op'.key < a) =>
                /\ insRots' = <<>>
                /\ root' = AVLNodeOf(a, 2, NewAVLNode(op'.key), nullptr)
        /\ \A a, b \in Keys :
            (/\ root = AVLNodeOf(a, 2, NewAVLNode(b), nullptr)
             /\ op'.key < b) =>
                /\ insRots' = OneRightRotationAtRoot
                /\ root' = AVLNodeOf(b, 2, NewAVLNode(op'.key), NewAVLNode(a))
                /\ inorder(root') = <<op'.key, b, a>>
                /\ StrictlyAscending(inorder(root'))]_vars

\* an AVLTree that held two keys, after the insert of a key below both has
\* made its one rotateRight at the root: the tree before was left-heavy, the
\* greater key above the smaller
C12_Witness ==
    /\ kind = "AVL"
    /\ op.name = "insert"
    /\ ret = TRUE
    /\ Len(before) = 2
    /\ op.key < before[1]
    /\ insRots = OneRightRotationAtRoot
    /\ Size(root) = 3
    /\ root.key = before[1]

\* the tree a first insert of key builds in a freshly constructed object
FreshInsert(key) ==
    IF kind = "AVL" THEN AVLinsert(nullptr, <<>>, key) ELSE BSTinsert(nullptr, <<>>, key)

\* C13: from any reachable state, empty or not, clear() leaves root absent,
\* isEmpty() true and the in-order, pre-order and post-order output empty; a
\* clear() right after a clear() changes nothing; an insert right after a
\* clear() returns and builds what it does on a freshly constructed tree.
C13_ClearEmpties ==
    [][/\ op'.name = "clear" =>
            /\ root' = nullptr
            /\ isEmpty(root')
            /\ inorder(root') = <<>>
            /\ preorder(root') = <<>>
            /\ postorder(root') = <<>>
       /\ (op.name = "clear" /\ op'.name = "clear") =>
            /\ root' = root
            /\ isEmpty(root')
       /\ (op.name = "clear" /\ op'.name = "insert") =>
            /\ ret' = FreshInsert(op'.key).ret
            /\ root' = FreshInsert(op'.key).root
            /\ inorder(root') = <<op'.key>>]_vars

\* clear() has just emptied a tree that held four keys or more
C13_Witness ==
    /\ op.name = "clear"
    /\ Len(before) >= 4
    /\ isEmpty(root)

\* the addresses the links of a live node hold
Targets(h, a) ==
    IF h.mem[a].used THEN {h.mem[a].left, h.mem[a].right} \ {NULL} ELSE {}

\* the addresses reached from a set of addresses by following links
RECURSIVE ReachFrom(_, _, _)
ReachFrom(h, frontier, seen) ==
    LET new == UNION {Targets(h, a) : a \in frontier} \ seen
    IN  IF new = {} THEN seen ELSE ReachFrom(h, new, seen \cup new)

\* the addresses reachable from root
Reach(h) == IF h.root = NULL THEN {} ELSE ReachFrom(h, {h.root}, {h.root})

\* the nodes allocated and not deleted
Allocated(h) == {a \in Addrs : h.mem[a].used}

\* the number of links that point to address a: the root pointer and the
\* left and right fields of the live nodes reachable from root
LinksTo(h, a) ==
    (IF h.root = a THEN 1 ELSE 0)
    + Cardinality({slot \in Reach(h) \X {"left", "right"} :
                     h.mem[slot[1]].used /\ h.mem[slot[1]][slot[2]] = a})

\* the tree value the node at address a stands for
RECURSIVE TreeAt(_, _)
TreeAt(h, a) ==
    IF a = NULL THEN nullptr
    ELSE LET n == h.mem[a] IN
         IF "height" \in DOMAIN n
         THEN [key |-> n.key, height |-> n.height,
               left |-> TreeAt(h, n.left), right |-> TreeAt(h, n.right)]
         ELSE [key |-> n.key,
               left |-> TreeAt(h, n.left), right |-> TreeAt(h, n.right)]

\* C14: after every completed insert, remove (COPY, FUSION, AVL), removeMin,
\* removeMax or clear, no delete has hit a dead node, every address reachable
\* from root is a live node referenced by exactly one link and lying on no
\* cycle, and every node allocated and not deleted is reachable from root; a
\* remove call that returns a key has deleted exactly one node and allocated
\* none, one that returns absent has deleted none, an insert allocates one
\* node exactly when it returns true, and clear deletes every node.  The
\* node graph is the tree, and the return value the value, that the calls
\* compute on tree values.
C14_OwnershipSafety ==
    /\ ~heap.bad
    /\ \A a \in Reach(heap) :
        /\ heap.mem[a].used
        /\ LinksTo(heap, a) = 1
        /\ a \notin ReachFrom(heap, Targets(heap, a), Targets(heap, a))
    /\ Allocated(heap) \subseteq Reach(heap)
    /\ op.name \in {"remove", "removeMode", "removeMax", "removeMin"} =>
        /\ heap.news = 0
        /\ heap.deletes = IF ret = nullptr THEN 0 ELSE 1
        /\ Cardinality(Allocated(heap)) = Len(before) - heap.deletes
    /\ op.name = "insert" =>
        /\ heap.deletes = 0
        /\ heap.news = IF ret THEN 1 ELSE 0
        /\ Cardinality(Allocated(heap)) = Len(before) + heap.news
    /\ op.name = "clear" =>
        /\ heap.news = 0
        /\ heap.deletes = Len(before)
        /\ Allocated(heap) = {}
    /\ TreeAt(heap, heap.root) = root
    /\ heap.ret = ret

\* a removal has just returned a key of a tree of four nodes, deleting one
\* node and leaving three
C14_Witness ==
    /\ op.name \in {"remove", "removeMode", "removeMax", "removeMin"}
    /\ ret # nullptr
    /\ Len(before) = 4
    /\ heap.deletes = 1
    /\ Cardinality(Reach(heap)) = 3

====
